---- MODULE Spec2Model ----
(***************************************************************************)
(* A model of the resource server: the RFC 6750 access-token extraction,   *)
(* the response-header merge, the task wrapper of BaseResourceEndpoint and *)
(* the Time and UserInfo endpoints built on it.                            *)
(*                                                                         *)
(* A string whose characters matter (the Authorization header, a token) is *)
(* a sequence of one-character strings.  An optional value (null or        *)
(* undefined in the source) is None or Some(v).                            *)
(***************************************************************************)
EXTENDS Integers, Sequences, FiniteSets, TLC

VARIABLES
    route,          \* the router entry that was hit: [endpoint, entry]
    request,        \* context.request / context.params / context.reqBody
    ctxHeaders,     \* context.headers (Fen's headers), optional
    disableRespond, \* context.config.disableRespond
    pc,             \* the position of the request in process()
    step,           \* the position inside the running task
    accessToken,    \* the result of extractAccessToken(), once it has run
    validator,      \* the AccessTokenValidator of validateAccessToken()
    delegated,      \* whether UserInfoRequestHandler.handle() was called
    response,       \* the Response the task produced (then merged)
    taskResponse,   \* the Response as executeTask() returned it
    thrown,         \* the error the task threw, if any
    sent,           \* the responses written to the client, in order
    now,            \* the instant new Date() reads
    tzOffset,       \* the host's time-zone offset from UTC, in hours
    taskRuns,       \* how many times the task was started
    returned        \* whether the router's controller has returned to Fen

vars == <<route, request, ctxHeaders, disableRespond, pc, step, accessToken,
          validator, delegated, response, taskResponse, thrown, sent, now,
          tzOffset, taskRuns, returned>>

None == [some |-> FALSE]

Some(v) == [some |-> TRUE, v |-> v]

-----------------------------------------------------------------------------
(* Bounds of the model.                                                    *)

\* The longest run of characters after the scheme word of an Authorization
\* header.
MaxTail == 3

\* The most entries a header list of the context or of a handler response
\* is built from.
MaxHeaders == 2

-----------------------------------------------------------------------------
(* Characters and the bearer pattern.                                      *)

TAB == "\t"

\* \s of the regular expression, over the characters of the model.
IsSpace(c) == c \in {" ", TAB}

\* Case folding of the "i" flag, over the characters of the model.
Lower(c) ==
    CASE c = "B" -> "b"
      [] c = "E" -> "e"
      [] c = "A" -> "a"
      [] c = "R" -> "r"
      [] c = "S" -> "s"
      [] OTHER -> c

\* The literal part of BEARER_PATTERN.
BearerWord == <<"B", "e", "a", "r", "e", "r">>

\* The first index >= i of s that holds no white space (Len(s) + 1 when
\* there is none): what a greedy \s* consumes from i.
RECURSIVE SkipSpace(_, _)
SkipSpace(s, i) ==
    IF i <= Len(s) /\ IsSpace(s[i]) THEN SkipSpace(s, i + 1) ELSE i

\* The first index >= i of s that holds white space (Len(s) + 1 when there
\* is none): what a greedy [^\s]+ consumes from i.
RECURSIVE SkipNonSpace(_, _)
SkipNonSpace(s, i) ==
    IF i <= Len(s) /\ ~IsSpace(s[i]) THEN SkipNonSpace(s, i + 1) ELSE i

\* BEARER_PATTERN.exec(s): None when s does not match, Some(result[1])
\* otherwise.  /^Bearer\s*([^\s]+)\s*$/i
BearerPatternExecMissingAnchor(s) ==
    LET n == Len(BearerWord)
        b == SkipSpace(s, n + 1)
        e == SkipNonSpace(s, b)
    IN  IF /\ Len(s) >= n
           /\ \A i \in 1..n : Lower(s[i]) = Lower(BearerWord[i])
           /\ e > b
        THEN Some(SubSeq(s, b, e - 1))
        ELSE None

BearerPatternExec(s) ==
    LET n == Len(BearerWord)
        b == SkipSpace(s, n + 1)
        e == SkipNonSpace(s, b)
        z == SkipSpace(s, e)
    IN  IF /\ Len(s) >= n
           /\ \A i \in 1..n : Lower(s[i]) = Lower(BearerWord[i])
           /\ e > b
           /\ z = Len(s) + 1
        THEN Some(SubSeq(s, b, e - 1))
        ELSE None

\* isNotEmpty() of the authlete library, on an optional string.
isNotEmpty(v) == v.some /\ Len(v.v) > 0

-----------------------------------------------------------------------------
(* The request and the token extraction.                                   *)

\* ContentType.APPLICATION_FORM_URLENCODED
APPLICATION_FORM_URLENCODED == "application/x-www-form-urlencoded"

getAuthorization(req) == req.authorization

getRequestMethod(req) == req.method

getRequestContentType(req) == req.contentType

\* context.params.get('access_token')
getQueryAccessToken(req) == req.params

\* context.reqBody['access_token']
getBodyAccessToken(req) == req.reqBody

\* extractAccessToken() with the query parameter of a GET request checked
\* before the Authorization header (mutant).
extractAccessTokenQueryFirst(req) ==
    IF getRequestMethod(req) = "GET" /\ getQueryAccessToken(req).some
    THEN getQueryAccessToken(req)
    ELSE IF /\ isNotEmpty(getAuthorization(req))
            /\ BearerPatternExec(getAuthorization(req).v).some
    THEN BearerPatternExec(getAuthorization(req).v)
    ELSE IF getRequestMethod(req) = "GET"
    THEN getQueryAccessToken(req)
    ELSE IF getRequestContentType(req) = Some(APPLICATION_FORM_URLENCODED)
    THEN getBodyAccessToken(req)
    ELSE None

\* extractAccessToken() returning absence on a header that does not match
\* (mutant).
extractAccessTokenNoFallthrough(req) ==
    IF isNotEmpty(getAuthorization(req))
    THEN BearerPatternExec(getAuthorization(req).v)
    ELSE IF getRequestMethod(req) = "GET"
    THEN getQueryAccessToken(req)
    ELSE IF getRequestContentType(req) = Some(APPLICATION_FORM_URLENCODED)
    THEN getBodyAccessToken(req)
    ELSE None

\* extractAccessToken() reading the body of POST requests only when the
\* query is absent, and the query on every method (mutant).
extractAccessTokenQueryAnyMethod(req) ==
    IF /\ isNotEmpty(getAuthorization(req))
       /\ BearerPatternExec(getAuthorization(req).v).some
    THEN BearerPatternExec(getAuthorization(req).v)
    ELSE IF getQueryAccessToken(req).some
    THEN getQueryAccessToken(req)
    ELSE IF getRequestContentType(req) = Some(APPLICATION_FORM_URLENCODED)
    THEN getBodyAccessToken(req)
    ELSE None

\* extractAccessToken() reading the body whatever the Content-Type is
\* (mutant).
extractAccessTokenBodyAnyType(req) ==
    IF /\ isNotEmpty(getAuthorization(req))
       /\ BearerPatternExec(getAuthorization(req).v).some
    THEN BearerPatternExec(getAuthorization(req).v)
    ELSE IF getRequestMethod(req) = "GET"
    THEN getQueryAccessToken(req)
    ELSE getBodyAccessToken(req)

\* extractAccessToken() going on to the body of a GET request that has no
\* query parameter (mutant).
extractAccessTokenGetReadsBody(req) ==
    IF /\ isNotEmpty(getAuthorization(req))
       /\ BearerPatternExec(getAuthorization(req).v).some
    THEN BearerPatternExec(getAuthorization(req).v)
    ELSE IF getRequestMethod(req) = "GET" /\ getQueryAccessToken(req).some
    THEN getQueryAccessToken(req)
    ELSE IF getRequestContentType(req) = Some(APPLICATION_FORM_URLENCODED)
    THEN getBodyAccessToken(req)
    ELSE None

\* BaseResourceEndpoint.extractAccessToken()
extractAccessToken(req) ==
    IF /\ isNotEmpty(getAuthorization(req))
       /\ BearerPatternExec(getAuthorization(req).v).some
    THEN BearerPatternExec(getAuthorization(req).v)
    ELSE IF getRequestMethod(req) = "GET"
    THEN getQueryAccessToken(req)
    ELSE IF getRequestContentType(req) = Some(APPLICATION_FORM_URLENCODED)
    THEN getBodyAccessToken(req)
    ELSE None

-----------------------------------------------------------------------------
(* The requests of the model.                                              *)

NotRun == [ran |-> FALSE]

Ran(t) == [ran |-> TRUE, token |-> t]

\* The words an Authorization header of the model starts with.
Schemes ==
    { <<>>,
      <<"B", "e", "a", "r", "e", "r">>,
      <<"b", "e", "a", "r", "e", "r">>,
      <<"B", "E", "A", "R", "E", "R">>,
      <<"B", "e", "a", "r", "e">>,
      <<"B", "a", "s", "i", "c">>,
      <<" ", "B", "e", "a", "r", "e", "r">> }

TailChars == {" ", TAB, "a"}

Tails == UNION { [1..k -> TailChars] : k \in 0..MaxTail }

AuthorizationValues == { s \o t : s \in Schemes, t \in Tails }

Authorizations == {None} \cup { Some(a) : a \in AuthorizationValues }

ContentTypes == {None, Some(APPLICATION_FORM_URLENCODED), Some("application/json")}

QueryTokens == {None, Some(<<"q">>), Some(<<"a">>)}

BodyTokens == {None, Some(<<"d">>), Some(<<"a">>)}

Requests ==
    [method : {"GET", "POST", "PUT"}, authorization : Authorizations,
     contentType : ContentTypes, params : QueryTokens, reqBody : BodyTokens]

-----------------------------------------------------------------------------
(* Headers objects and the header merge.                                   *)
(*                                                                         *)
(* A Headers object is its header list: a sequence of [name, value]        *)
(* entries, names in lower case.  A value is the sequence of the values    *)
(* that were combined into it: <<"1", "2">> stands for the string "1, 2".  *)

\* The lower-case form of a header name.
LowerName(n) ==
    CASE n = "A" -> "a"
      [] n = "B" -> "b"
      [] n = "Set-Cookie" -> "set-cookie"
      [] n = "Content-Type" -> "content-type"
      [] n = "WWW-Authenticate" -> "www-authenticate"
      [] OTHER -> n

\* The lower-case header names of the model in the order an iteration of a
\* Headers object yields them.
SortedNames == <<"a", "b", "content-type", "set-cookie", "www-authenticate">>

\* Headers.append(name, value)
HeadersAppend(h, name, value) ==
    Append(h, [name |-> LowerName(name), value |-> value])

\* The entries of h named n, in list order.
RECURSIVE EntriesNamed(_, _)
EntriesNamed(h, n) ==
    IF h = <<>> THEN <<>>
    ELSE IF Head(h).name = n THEN <<Head(h)>> \o EntriesNamed(Tail(h), n)
    ELSE EntriesNamed(Tail(h), n)

\* The values of the entries es, combined into one value.
RECURSIVE CombinedValue(_)
CombinedValue(es) ==
    IF es = <<>> THEN <<>> ELSE Head(es).value \o CombinedValue(Tail(es))

\* What the iteration yields for the names SortedNames[i..]: the names in
\* order, the values of one name combined into one entry, the set-cookie
\* entries one by one.
RECURSIVE EntriesFrom(_, _)
EntriesFrom(h, i) ==
    IF i > Len(SortedNames) THEN <<>>
    ELSE LET n  == SortedNames[i]
             es == EntriesNamed(h, n)
         IN  (IF es = <<>> THEN <<>>
              ELSE IF n = "set-cookie" THEN es
              ELSE <<[name |-> n, value |-> CombinedValue(es)]>>)
             \o EntriesFrom(h, i + 1)

\* Headers.entries()
HeadersEntries(h) == EntriesFrom(h, 1)

\* The loop of appendHeaders() over the entries es.
RECURSIVE AppendAll(_, _)
AppendAll(target, es) ==
    IF es = <<>> THEN target
    ELSE AppendAll(HeadersAppend(target, Head(es).name, Head(es).value), Tail(es))

\* appendHeaders(targetHeaders, sourceHeaders?) overwriting the target with
\* the source's entries of the same name (mutant).
RECURSIVE SetAll(_, _)
SetAll(target, es) ==
    IF es = <<>> THEN target
    ELSE SetAll(
            Append(SelectSeq(target, LAMBDA e : e.name # Head(es).name), Head(es)),
            Tail(es))

appendHeadersOverwriting(targetHeaders, sourceHeaders) ==
    IF sourceHeaders.some
    THEN SetAll(targetHeaders, HeadersEntries(sourceHeaders.v))
    ELSE targetHeaders

\* appendHeaders(targetHeaders, sourceHeaders?): the target afterwards.
appendHeaders(targetHeaders, sourceHeaders) ==
    IF sourceHeaders.some
    THEN AppendAll(targetHeaders, HeadersEntries(sourceHeaders.v))
    ELSE targetHeaders

\* setupResponseHeaders() appending the response's headers first (mutant).
setupResponseHeadersHandlerFirst(context, resp) ==
    [resp EXCEPT !.headers =
        appendHeaders(appendHeaders(<<>>, Some(resp.headers)), context)]

\* setupResponseHeaders() changing the status with the headers (mutant).
setupResponseHeadersResetStatus(context, resp) ==
    [resp EXCEPT !.headers =
                    appendHeaders(appendHeaders(<<>>, context), Some(resp.headers)),
                 !.status = 200]

\* setupResponseHeaders(response): the response afterwards, for the
\* context's headers.
setupResponseHeaders(context, resp) ==
    [resp EXCEPT !.headers =
        appendHeaders(appendHeaders(<<>>, context), Some(resp.headers))]

-----------------------------------------------------------------------------
(* The responses of the authlete library.                                  *)

TextBody(t) == [kind |-> "text", text |-> t]

\* badRequest(message)
badRequest(message) ==
    [status |-> 400,
     headers |-> <<[name |-> "content-type", value |-> <<"text/plain">>]>>,
     body |-> TextBody(message)]

\* internalServerError(message)
internalServerError(message) ==
    [status |-> 500,
     headers |-> <<[name |-> "content-type", value |-> <<"text/plain">>]>>,
     body |-> TextBody(message)]

\* okJson(json)
okJson(json) ==
    [status |-> 200,
     headers |-> <<[name |-> "content-type", value |-> <<"application/json">>]>>,
     body |-> [kind |-> "json", json |-> json]]

-----------------------------------------------------------------------------
(* Dates.  An instant is [h, minute, second, millisecond]: h is the number *)
(* of whole hours since 2020-01-01T00:00Z, the rest is the time within the *)
(* hour.  The host's time zone is a whole number of hours east of UTC.     *)

IsLeapYear(y) == (y % 4 = 0 /\ y % 100 # 0) \/ y % 400 = 0

DaysInYear(y) == IF IsLeapYear(y) THEN 366 ELSE 365

\* The days of month m (0 = January) of year y.
DaysInMonth(y, m) ==
    CASE m = 1 -> IF IsLeapYear(y) THEN 29 ELSE 28
      [] m \in {3, 5, 8, 10} -> 30
      [] OTHER -> 31

RECURSIVE MonthFrom(_, _, _)
MonthFrom(y, m, d) ==
    IF d >= DaysInMonth(y, m) THEN MonthFrom(y, m + 1, d - DaysInMonth(y, m))
    ELSE [year |-> y, month |-> m, date |-> d + 1]

RECURSIVE YearFrom(_, _)
YearFrom(y, d) ==
    IF d >= DaysInYear(y) THEN YearFrom(y + 1, d - DaysInYear(y))
    ELSE MonthFrom(y, 0, d)

\* The calendar date and hour of h hours since 2020-01-01T00:00.
Civil(h) == [ymd |-> YearFrom(2020, h \div 24), hour |-> h % 24]

getUTCFullYear(t) == Civil(t.h).ymd.year

getUTCMonth(t) == Civil(t.h).ymd.month

getUTCDate(t) == Civil(t.h).ymd.date

getUTCHours(t) == Civil(t.h).hour

getUTCMinutes(t) == t.minute

getUTCSeconds(t) == t.second

getUTCMilliseconds(t) == t.millisecond

\* Date.getMonth(): the month of the instant in the host's time zone.
getMonth(t, tz) == Civil(t.h + tz).ymd.month

\* TimeEndpoint.buildResponse(), for the instant new Date() reads and the
\* host's time zone.
buildResponse(t, tz) ==
    okJson([year        |-> getUTCFullYear(t),
            month       |-> getMonth(t, tz) + 1,
            day         |-> getUTCDate(t),
            hour        |-> getUTCHours(t),
            minute      |-> getUTCMinutes(t),
            second      |-> getUTCSeconds(t),
            millisecond |-> getUTCMilliseconds(t)])

-----------------------------------------------------------------------------
(* The collaborators: the validator, the userinfo handler, Fen.            *)

BearerError(status, challenge) ==
    [status |-> status,
     headers |-> <<[name |-> "www-authenticate", value |-> <<challenge>>]>>,
     body |-> TextBody("")]

\* The error responses AccessTokenValidator.errorResponse can hold.
ErrorResponses ==
    { BearerError(400, "invalid_request"),
      BearerError(401, "invalid_token"),
      BearerError(403, "insufficient_scope") }

\* The responses UserInfoRequestHandler.handle() can return.
UserInfoResponses ==
    { okJson([sub |-> "user"]) } \cup ErrorResponses

\* What a call of a collaborator can throw.
Errors == {"TypeError", "ConnectionRefused"}

NoValidator == [called |-> FALSE]

\* The AccessTokenValidator after validate(token).
Validated(token, isValid, errorResponse) ==
    [called |-> TRUE, token |-> token, isValid |-> isValid,
     errorResponse |-> errorResponse]

\* The response Fen writes itself when the controller has returned and
\* disableRespond is not set.
FenResponse(context) ==
    [status |-> 200,
     headers |-> IF context.some THEN context.v ELSE <<>>,
     body |-> TextBody("")]

-----------------------------------------------------------------------------
(* The routes of server.ts and the inputs of a request.                    *)

Routes ==
    [endpoint : {"time", "userinfo"}, entry : {"get", "post"}]
        \cup {[endpoint |-> "favicon", entry |-> "get"]}

RouteMethod(r) == IF r.entry = "get" THEN "GET" ELSE "POST"

\* The requests the router dispatches in the model of a whole request.
RoutedAuthorizations ==
    { None,
      Some(<<"B", "e", "a", "r", "e", "r", " ", "a">>),
      Some(<<"B", "a", "s", "i", "c", " ", "a">>) }

RoutedRequests(r) ==
    [method : {RouteMethod(r)}, authorization : RoutedAuthorizations,
     contentType : ContentTypes, params : {None, Some(<<"q">>)},
     reqBody : {None, Some(<<"d">>)}]

RoutedContextHeaders ==
    { None, Some(<<>>),
      Some(<<[name |-> "set-cookie", value |-> <<"sid">>]>>),
      Some(<<[name |-> "content-type", value |-> <<"text/html">>]>>) }

Instant(h, minute, second, millisecond) ==
    [h |-> h, minute |-> minute, second |-> second, millisecond |-> millisecond]

\* 2020-01-31T23:59:59.999Z and 2020-08-12T15:09:10.015Z
RoutedInstants == { Instant(30 * 24 + 23, 59, 59, 999), Instant(224 * 24 + 15, 9, 10, 15) }

RoutedOffsets == {0, 1}

\* The header lists a Headers object can hold after at most MaxHeaders
\* calls of append() with the names and values of raw.
HeaderLists(raw) ==
    { AppendAll(<<>>, es) : es \in UNION { [1..k -> raw] : k \in 0..MaxHeaders } }

ContextRaw == [name : {"A", "b", "Set-Cookie"}, value : {<<"1">>, <<"4">>}]

HandlerRaw == [name : {"A", "b", "Set-Cookie"}, value : {<<"2">>, <<"3">>}]

ContextHeaderSets == {None} \cup { Some(h) : h \in HeaderLists(ContextRaw) }

\* Every hour of 2020 and 2021 but the first and the last day.
Hours == 24 .. ((366 + 365 - 1) * 24 - 1)

Instants ==
    { Instant(h, m, m, ms) :
        h \in { x \in Hours : x % 24 \in {0, 12, 23} }, m \in {0, 59}, ms \in {0, 999} }

\* Hours east of UTC: the widest zones and the neighbours of UTC.
Offsets == {-12, -1, 0, 1, 14}

-----------------------------------------------------------------------------
(* The state after construction.                                           *)

\* What no input decides: nothing has run yet.
Fresh ==
    /\ disableRespond = FALSE
    /\ accessToken = NotRun
    /\ validator = NoValidator
    /\ delegated = FALSE
    /\ thrown = None
    /\ sent = <<>>
    /\ returned = FALSE

\* A request the router has handed to an endpoint's get() or post().
Init ==
    /\ Fresh
    /\ route \in Routes
    /\ request \in RoutedRequests(route)
    /\ ctxHeaders \in RoutedContextHeaders
    /\ now \in RoutedInstants
    /\ tzOffset \in RoutedOffsets
    /\ pc = "Dispatched"
    /\ step = "entry"
    /\ response = None
    /\ taskResponse = None
    /\ taskRuns = 0

-----------------------------------------------------------------------------
(* The operations.                                                         *)

\* The task returns r to executeTask(), which returns it.
TaskReturns(r) ==
    /\ response' = Some(r)
    /\ taskResponse' = Some(r)
    /\ pc' = "TaskSucceeded"
    /\ step' = "returned"

\* executeTask() with the failure propagated instead of caught (mutant).
TaskThrowsUncaught(e) ==
    /\ thrown' = Some(e)
    /\ response' = Some([status |-> 500,
                         headers |-> <<>>,
                         body |-> TextBody(e)])
    /\ taskResponse' = response'
    /\ pc' = "TaskFailed"
    /\ step' = "threw"

\* executeTask() starting the task again after its first failure (mutant).
TaskThrowsRetryOnce(e) ==
    IF taskRuns < 2
    THEN /\ pc' = "Dispatched"
         /\ step' = "entry"
         /\ UNCHANGED <<thrown, response, taskResponse>>
    ELSE /\ thrown' = Some(e)
         /\ response' = Some(internalServerError("Something went wrong."))
         /\ taskResponse' = response'
         /\ pc' = "TaskFailed"
         /\ step' = "threw"

\* The task throws e: the catch block of executeTask().
TaskThrows(e) ==
    /\ thrown' = Some(e)
    /\ response' = Some(internalServerError("Something went wrong."))
    /\ taskResponse' = response'
    /\ pc' = "TaskFailed"
    /\ step' = "threw"

\* get() and post() of an endpoint call process(), which starts the task:
\* behind the content-type gate for post(), the handler itself for get().
Process ==
    /\ pc = "Dispatched"
    /\ route.endpoint # "favicon"
    /\ pc' = "TaskRunning"
    /\ step' = IF route.entry = "post" THEN "gate" ELSE "extract"
    /\ taskRuns' = taskRuns + 1
    /\ UNCHANGED <<route, request, ctxHeaders, disableRespond, accessToken,
                   validator, delegated, response, taskResponse, thrown, sent,
                   now, tzOffset, returned>>

BadContentTypeMessage ==
    "Request 'Content-Type' must be 'application/x-www-form-urlencoded'."

\* The gate of processForContentType() letting every request through
\* (mutant).
ContentTypeGateOpen(type) ==
    /\ pc = "TaskRunning"
    /\ step = "gate"
    /\ step' = "extract"
    /\ UNCHANGED <<pc, response, taskResponse>>
    /\ UNCHANGED <<route, request, ctxHeaders, disableRespond, accessToken,
                   validator, delegated, thrown, sent, now, tzOffset, taskRuns,
                   returned>>

\* The task of processForContentType(type, task).
ContentTypeGate(type) ==
    /\ pc = "TaskRunning"
    /\ step = "gate"
    /\ IF getRequestContentType(request) # Some(type)
       THEN TaskReturns(badRequest(BadContentTypeMessage))
       ELSE /\ step' = "extract"
            /\ UNCHANGED <<pc, response, taskResponse>>
    /\ UNCHANGED <<route, request, ctxHeaders, disableRespond, accessToken,
                   validator, delegated, thrown, sent, now, tzOffset, taskRuns,
                   returned>>

\* processForApplicationFormUrlEncoded(task)
ProcessForApplicationFormUrlEncoded == ContentTypeGate(APPLICATION_FORM_URLENCODED)

\* The call of extractAccessToken() that opens validateAccessToken() and
\* UserInfoEndpoint.handle().
ExtractAccessToken ==
    /\ pc = "TaskRunning"
    /\ step = "extract"
    /\ accessToken' = Ran(extractAccessToken(request))
    /\ step' = IF route.endpoint = "time" THEN "validate" ELSE "delegate"
    /\ UNCHANGED <<route, request, ctxHeaders, disableRespond, pc, validator,
                   delegated, response, taskResponse, thrown, sent, now,
                   tzOffset, taskRuns, returned>>

\* validateAccessToken(): validator.validate(accessToken) answers.  The
\* authorization server never reports an absent token as valid.
ValidateAccessToken ==
    /\ pc = "TaskRunning"
    /\ step = "validate"
    /\ \E isValid \in BOOLEAN, err \in ErrorResponses :
          /\ isValid => accessToken.token.some
          /\ validator' = Validated(accessToken.token, isValid,
                                    IF isValid THEN None ELSE Some(err))
    /\ step' = "validated"
    /\ UNCHANGED <<route, request, ctxHeaders, disableRespond, pc, accessToken,
                   delegated, response, taskResponse, thrown, sent, now,
                   tzOffset, taskRuns, returned>>

\* validateAccessToken(): validator.validate(accessToken) throws.
ValidateThrows ==
    /\ pc = "TaskRunning"
    /\ step = "validate"
    /\ \E e \in Errors : TaskThrows(e)
    /\ UNCHANGED <<route, request, ctxHeaders, disableRespond, accessToken,
                   validator, delegated, sent, now, tzOffset, taskRuns, returned>>

\* TimeEndpoint.handle() building the time whatever the validator said
\* (mutant).
TimeHandleUnchecked ==
    /\ pc = "TaskRunning"
    /\ step = "validated"
    /\ TaskReturns(buildResponse(now, tzOffset))
    /\ UNCHANGED <<route, request, ctxHeaders, disableRespond, accessToken,
                   validator, delegated, thrown, sent, now, tzOffset, taskRuns,
                   returned>>

\* TimeEndpoint.handle(), after validateAccessToken() has returned.
TimeHandle ==
    /\ pc = "TaskRunning"
    /\ step = "validated"
    /\ IF ~validator.isValid
       THEN TaskReturns(validator.errorResponse.v)
       ELSE TaskReturns(buildResponse(now, tzOffset))
    /\ UNCHANGED <<route, request, ctxHeaders, disableRespond, accessToken,
                   validator, delegated, thrown, sent, now, tzOffset, taskRuns,
                   returned>>

\* UserInfoEndpoint.handle(): UserInfoRequestHandler.handle() answers.
UserInfoHandle ==
    /\ pc = "TaskRunning"
    /\ step = "delegate"
    /\ delegated' = TRUE
    /\ \E r \in UserInfoResponses : TaskReturns(r)
    /\ UNCHANGED <<route, request, ctxHeaders, disableRespond, accessToken,
                   validator, thrown, sent, now, tzOffset, taskRuns, returned>>

\* UserInfoEndpoint.handle(): UserInfoRequestHandler.handle() throws.
UserInfoThrows ==
    /\ pc = "TaskRunning"
    /\ step = "delegate"
    /\ delegated' = TRUE
    /\ \E e \in Errors : TaskThrows(e)
    /\ UNCHANGED <<route, request, ctxHeaders, disableRespond, accessToken,
                   validator, sent, now, tzOffset, taskRuns, returned>>

\* handleResponse() leaving Fen's own respond enabled (mutant).
DisableRespondSkipped ==
    /\ pc \in {"TaskSucceeded", "TaskFailed"}
    /\ step \in {"returned", "threw"}
    /\ step' = "suppressed"
    /\ UNCHANGED <<route, request, ctxHeaders, disableRespond, pc, accessToken,
                   validator, delegated, response, taskResponse, thrown, sent,
                   now, tzOffset, taskRuns, returned>>

\* handleResponse(), first statement: Fen's own respond is disabled.
DisableRespond ==
    /\ pc \in {"TaskSucceeded", "TaskFailed"}
    /\ step \in {"returned", "threw"}
    /\ disableRespond' = TRUE
    /\ step' = "suppressed"
    /\ UNCHANGED <<route, request, ctxHeaders, pc, accessToken, validator,
                   delegated, response, taskResponse, thrown, sent, now,
                   tzOffset, taskRuns, returned>>

\* setupResponseHeaders() appending to the context's own Headers object
\* instead of a new one (mutant).
SetupResponseHeadersIntoContext ==
    /\ pc \in {"TaskSucceeded", "TaskFailed"}
    /\ step = "suppressed"
    /\ response' = Some(setupResponseHeaders(ctxHeaders, response.v))
    /\ ctxHeaders' = Some(response'.v.headers)
    /\ pc' = "HeadersMerged"
    /\ step' = "merged"
    /\ UNCHANGED <<route, request, disableRespond, accessToken, validator,
                   delegated, taskResponse, thrown, sent, now, tzOffset,
                   taskRuns, returned>>

\* handleResponse(), second statement: setupResponseHeaders(response).
SetupResponseHeaders ==
    /\ pc \in {"TaskSucceeded", "TaskFailed"}
    /\ step = "suppressed"
    /\ response' = Some(setupResponseHeaders(ctxHeaders, response.v))
    /\ pc' = "HeadersMerged"
    /\ step' = "merged"
    /\ UNCHANGED <<route, request, ctxHeaders, disableRespond, accessToken,
                   validator, delegated, taskResponse, thrown, sent, now,
                   tzOffset, taskRuns, returned>>

\* handleResponse(), third statement: getRequest().respond(response).
Respond ==
    /\ pc = "HeadersMerged"
    /\ sent' = Append(sent, response.v)
    /\ pc' = "Sent"
    /\ step' = "responded"
    /\ UNCHANGED <<route, request, ctxHeaders, disableRespond, accessToken,
                   validator, delegated, response, taskResponse, thrown, now,
                   tzOffset, taskRuns, returned>>

\* The controller returning to a Fen that responds whatever disableRespond
\* is (mutant).
ControllerReturnsResponding ==
    /\ ~returned
    /\ \/ pc = "Sent"
       \/ pc = "Dispatched" /\ route.endpoint = "favicon"
    /\ returned' = TRUE
    /\ sent' = Append(sent, FenResponse(ctxHeaders))
    /\ UNCHANGED <<route, request, ctxHeaders, disableRespond, pc, step,
                   accessToken, validator, delegated, response, taskResponse,
                   thrown, now, tzOffset, taskRuns>>

\* The controller of the route returns to Fen, which responds itself
\* unless disableRespond is set.
ControllerReturns ==
    /\ ~returned
    /\ \/ pc = "Sent"
       \/ pc = "Dispatched" /\ route.endpoint = "favicon"
    /\ returned' = TRUE
    /\ sent' = IF disableRespond THEN sent
               ELSE Append(sent, FenResponse(ctxHeaders))
    /\ UNCHANGED <<route, request, ctxHeaders, disableRespond, pc, step,
                   accessToken, validator, delegated, response, taskResponse,
                   thrown, now, tzOffset, taskRuns>>

Next ==
    \/ Process
    \/ ProcessForApplicationFormUrlEncoded
    \/ ExtractAccessToken
    \/ ValidateAccessToken
    \/ ValidateThrows
    \/ TimeHandle
    \/ UserInfoHandle
    \/ UserInfoThrows
    \/ DisableRespond
    \/ SetupResponseHeaders
    \/ Respond
    \/ ControllerReturns

Spec == Init /\ [][Next]_vars

\* The event loop runs every continuation that is ready, and a call of a
\* collaborator that is awaited returns or throws.
FairSpec == Spec /\ WF_vars(Next)

-----------------------------------------------------------------------------
(* The token extraction on its own, over every request of the model.       *)

InitExtract ==
    /\ Fresh
    /\ route = [endpoint |-> "time", entry |-> "get"]
    /\ request \in Requests
    /\ ctxHeaders = None
    /\ now = Instant(24, 0, 0, 0)
    /\ tzOffset = 0
    /\ pc = "TaskRunning"
    /\ step = "extract"
    /\ response = None
    /\ taskResponse = None
    /\ taskRuns = 1

NextExtract == ExtractAccessToken

SpecExtract == InitExtract /\ [][NextExtract]_vars

-----------------------------------------------------------------------------
(* The header merge on its own, over the header lists of the model.        *)

InitMerge ==
    /\ Fresh
    /\ route = [endpoint |-> "time", entry |-> "get"]
    /\ request = [method |-> "GET", authorization |-> None, contentType |-> None,
                  params |-> None, reqBody |-> None]
    /\ ctxHeaders \in ContextHeaderSets
    /\ now = Instant(24, 0, 0, 0)
    /\ tzOffset = 0
    /\ pc = "TaskSucceeded"
    /\ step = "returned"
    /\ \E h \in HeaderLists(HandlerRaw) :
          response = Some([status |-> 200, headers |-> h, body |-> TextBody("ok")])
    /\ taskResponse = response
    /\ taskRuns = 1

NextMerge == DisableRespond \/ SetupResponseHeaders

SpecMerge == InitMerge /\ [][NextMerge]_vars

-----------------------------------------------------------------------------
(* The time response on its own, over the instants and zones of the model. *)

InitTime ==
    /\ disableRespond = FALSE
    /\ accessToken = Ran(Some(<<"a">>))
    /\ validator = Validated(Some(<<"a">>), TRUE, None)
    /\ delegated = FALSE
    /\ thrown = None
    /\ sent = <<>>
    /\ returned = FALSE
    /\ route = [endpoint |-> "time", entry |-> "get"]
    /\ request = [method |-> "GET",
                  authorization |-> Some(<<"B", "e", "a", "r", "e", "r", " ", "a">>),
                  contentType |-> None, params |-> None, reqBody |-> None]
    /\ ctxHeaders = None
    /\ now \in Instants
    /\ tzOffset \in Offsets
    /\ pc = "TaskRunning"
    /\ step = "validated"
    /\ response = None
    /\ taskResponse = None
    /\ taskRuns = 1

NextTime == TimeHandle

SpecTime == InitTime /\ [][NextTime]_vars

-----------------------------------------------------------------------------
(* The claims about the token extraction, under SpecExtract.               *)

\* The letters each position of the scheme word accepts, in either case.
BearerLetters ==
    <<{"B", "b"}, {"E", "e"}, {"A", "a"}, {"R", "r"}, {"E", "e"}, {"R", "r"}>>

\* s is the word "Bearer" in any case, white space, the token s[b..e] of one
\* or more characters other than white space, white space, and nothing else.
IsBearerMatch(s, b, e) ==
    /\ 7 <= b /\ b <= e /\ e <= Len(s)
    /\ \A i \in 1..6 : s[i] \in BearerLetters[i]
    /\ \A i \in 7..(b - 1) : s[i] \in {" ", TAB}
    /\ \A i \in b..e : s[i] \notin {" ", TAB}
    /\ \A i \in (e + 1)..Len(s) : s[i] \in {" ", TAB}

\* The Authorization header of the request is present and matches the
\* bearer pattern.
HeaderMatches ==
    /\ request.authorization.some
    /\ \E b, e \in 1..Len(request.authorization.v) :
          IsBearerMatch(request.authorization.v, b, e)

\* C1: when the Authorization header is non-empty and is "Bearer", in any
\* case, then optional white space, a token T without white space and
\* optional white space, extractAccessToken returns T, whatever the method,
\* the Content-Type, the query parameter and the body field are.
C1_HeaderTakesPrecedence ==
    (accessToken.ran /\ request.authorization.some) =>
        \A b, e \in 1..Len(request.authorization.v) :
            IsBearerMatch(request.authorization.v, b, e) =>
                accessToken.token = Some(SubSeq(request.authorization.v, b, e))

\* A GET request with a matching header in lower case and without a space
\* before the token, a different query token and a body token, for which
\* the header's token was returned.
C1_Witness ==
    /\ accessToken.ran
    /\ request.method = "GET"
    /\ request.authorization = Some(<<"b", "e", "a", "r", "e", "r", "a", "a", " ">>)
    /\ request.params = Some(<<"q">>)
    /\ request.reqBody = Some(<<"d">>)
    /\ accessToken.token = Some(<<"a", "a">>)

\* C2: for a GET request whose Authorization header is absent, empty or
\* does not match the bearer pattern, and whose query parameter
\* access_token is T, extractAccessToken returns T.
C2_GetFallsThroughToQuery ==
    (/\ accessToken.ran
     /\ request.method = "GET"
     /\ ~HeaderMatches
     /\ request.params.some) =>
        accessToken.token = request.params

\* A GET request with a malformed bearer header (two tokens) and a query
\* token, which was returned.
C2_Witness ==
    /\ accessToken.ran
    /\ request.method = "GET"
    /\ request.authorization = Some(<<"B", "e", "a", "r", "e", "r", "a", " ", "a">>)
    /\ request.params = Some(<<"q">>)
    /\ accessToken.token = Some(<<"q">>)

\* C3: for a POST request whose Content-Type is exactly
\* application/x-www-form-urlencoded, whose Authorization header is
\* absent, empty or does not match the bearer pattern, and whose body
\* field access_token is T, extractAccessToken returns T.
C3_PostFormBody ==
    (/\ accessToken.ran
     /\ request.method = "POST"
     /\ request.contentType = Some("application/x-www-form-urlencoded")
     /\ ~HeaderMatches
     /\ request.reqBody.some) =>
        accessToken.token = request.reqBody

\* A POST form request with an empty Authorization header, a query token
\* and a body token: the body token was returned.
C3_Witness ==
    /\ accessToken.ran
    /\ request.method = "POST"
    /\ request.contentType = Some("application/x-www-form-urlencoded")
    /\ request.authorization = Some(<<>>)
    /\ request.params = Some(<<"q">>)
    /\ request.reqBody = Some(<<"d">>)
    /\ accessToken.token = Some(<<"d">>)

\* C4: the result of extractAccessToken is absence, or the token of a
\* matching Authorization header, or the query parameter of a GET
\* request, or the body field of a request whose Content-Type is exactly
\* application/x-www-form-urlencoded; a request with no token in any of
\* the three channels yields absence.
C4_OnlyApplicableChannels ==
    accessToken.ran =>
        /\ \/ accessToken.token = None
           \/ /\ request.authorization.some
              /\ \E b, e \in 1..Len(request.authorization.v) :
                    /\ IsBearerMatch(request.authorization.v, b, e)
                    /\ accessToken.token =
                          Some(SubSeq(request.authorization.v, b, e))
           \/ request.method = "GET" /\ accessToken.token = request.params
           \/ /\ request.contentType = Some("application/x-www-form-urlencoded")
              /\ accessToken.token = request.reqBody
        /\ (~HeaderMatches /\ ~request.params.some /\ ~request.reqBody.some)
              => accessToken.token = None

\* A POST request with a JSON Content-Type, no usable header, a query
\* token and a body token: neither was returned.
C4_Witness ==
    /\ accessToken.ran
    /\ request.method = "POST"
    /\ request.contentType = Some("application/json")
    /\ request.authorization = Some(<<"B", "a", "s", "i", "c", " ", "a">>)
    /\ request.params = Some(<<"q">>)
    /\ request.reqBody = Some(<<"d">>)
    /\ accessToken.token = None

-----------------------------------------------------------------------------
(* The claim about the header merge, under SpecMerge.                      *)

\* The values h holds for the name n, one by one, in the order of h.
RECURSIVE ValuesNamed(_, _)
ValuesNamed(h, n) ==
    IF h = <<>> THEN <<>>
    ELSE (IF h[1].name = n THEN h[1].value ELSE <<>>)
         \o ValuesNamed(SubSeq(h, 2, Len(h)), n)

NamesOf(h) == { h[i].name : i \in 1..Len(h) }

\* The first k entries of m hold the values of c and the others those of h,
\* name by name and in the same order.
SplitsAt(m, k, c, h) ==
    \A n \in NamesOf(m) \cup NamesOf(c) \cup NamesOf(h) :
        /\ ValuesNamed(SubSeq(m, 1, k), n) = ValuesNamed(c, n)
        /\ ValuesNamed(SubSeq(m, k + 1, Len(m)), n) = ValuesNamed(h, n)

\* C5: the merged headers of the response hold every value of the
\* context's headers and of the handler's headers under its name, all of
\* the context's entries before all of the handler's; a name both have
\* keeps both values, the context's first; an absent context header set
\* adds nothing.
C5_MergeKeepsBothInOrder ==
    step = "merged" =>
        LET m == response.v.headers
            c == IF ctxHeaders.some THEN ctxHeaders.v ELSE <<>>
            h == taskResponse.v.headers
        IN  /\ \E k \in 0..Len(m) : SplitsAt(m, k, c, h)
            /\ ~ctxHeaders.some => \A n \in NamesOf(m) \cup NamesOf(h) :
                                      ValuesNamed(m, n) = ValuesNamed(h, n)

\* Context headers {a: 1} and handler headers {a: 2, b: 3} were merged into
\* a: 1, a: 2, b: 3.
C5_Witness ==
    /\ step = "merged"
    /\ ctxHeaders = Some(<<[name |-> "a", value |-> <<"1">>]>>)
    /\ taskResponse.v.headers = <<[name |-> "a", value |-> <<"2">>],
                                  [name |-> "b", value |-> <<"3">>]>>
    /\ response.v.headers = <<[name |-> "a", value |-> <<"1">>],
                              [name |-> "a", value |-> <<"2">>],
                              [name |-> "b", value |-> <<"3">>]>>

-----------------------------------------------------------------------------
(* The claims about a whole request, under Spec.                           *)

\* C6: a request that enters through post() with a Content-Type other than
\* application/x-www-form-urlencoded, or with none, is answered 400 with
\* the message naming the required type, and its handler never runs: no
\* token is extracted, no validator and no userinfo handler is called.
\* With the required Content-Type the handler has run when the response
\* is sent.
C6_ContentTypeGate ==
    route.entry = "post" =>
        IF request.contentType # Some("application/x-www-form-urlencoded")
        THEN /\ accessToken = NotRun
             /\ ~validator.called
             /\ ~delegated
             /\ pc = "Sent" =>
                   /\ Len(sent) = 1
                   /\ sent[1].status = 400
                   /\ sent[1].body = TextBody(
                        "Request 'Content-Type' must be 'application/x-www-form-urlencoded'.")
        ELSE pc = "Sent" => accessToken.ran

\* POST /api/time with Content-Type application/json and a bearer token
\* was answered 400.
C6_Witness ==
    /\ route = [endpoint |-> "time", entry |-> "post"]
    /\ request.contentType = Some("application/json")
    /\ request.authorization.some
    /\ pc = "Sent"
    /\ sent[1].status = 400

\* C7: once the task has thrown, the response is 500 with the body
\* "Something went wrong.", whatever was thrown; process() goes on to send
\* exactly that response and the controller returns normally.
C7_ThrownBecomes500 ==
    thrown.some =>
        /\ pc \in {"TaskFailed", "HeadersMerged", "Sent"}
        /\ response.v.status = 500
        /\ response.v.body = TextBody("Something went wrong.")
        /\ pc = "Sent" => sent = <<response.v>>
        /\ returned => pc = "Sent"

\* The validation call of GET /api/time threw and the 500 was sent.
C7_Witness ==
    /\ thrown = Some("ConnectionRefused")
    /\ route.endpoint = "time"
    /\ pc = "Sent"
    /\ returned
    /\ sent[1].status = 500

\* C8, as claimed: the response sent for GET /api/time with an invalid
\* token is the validator's error response with nothing changed: the same
\* status, body and headers.
C8_SentIsValidatorResponseExactly ==
    (/\ route = [endpoint |-> "time", entry |-> "get"]
     /\ validator.called /\ ~validator.isValid
     /\ pc = "Sent") =>
        /\ Len(sent) = 1
        /\ sent[1].status = validator.errorResponse.v.status
        /\ sent[1].body = validator.errorResponse.v.body
        /\ HeadersEntries(sent[1].headers) =
              HeadersEntries(validator.errorResponse.v.headers)

\* C8, amended: the response sent for GET /api/time with an invalid token
\* has the status and the body of the validator's error response, and its
\* headers are the context's headers followed by those of the validator's
\* error response: the validator's headers alone when the context has no
\* headers.
C8_SentIsValidatorResponseWithContextHeaders ==
    (/\ route = [endpoint |-> "time", entry |-> "get"]
     /\ validator.called /\ ~validator.isValid
     /\ pc = "Sent") =>
        LET c == IF ctxHeaders.some THEN ctxHeaders.v ELSE <<>>
            h == validator.errorResponse.v.headers
        IN  /\ Len(sent) = 1
            /\ sent[1].status = validator.errorResponse.v.status
            /\ sent[1].body = validator.errorResponse.v.body
            /\ \E k \in 0..Len(sent[1].headers) :
                  SplitsAt(sent[1].headers, k, c, h)
            /\ c = <<>> => HeadersEntries(sent[1].headers) = HeadersEntries(h)

\* GET /api/time without any token, in a context that holds a session
\* cookie: the validator's error response was sent with the cookie added.
C8_Witness ==
    /\ route = [endpoint |-> "time", entry |-> "get"]
    /\ accessToken = Ran(None)
    /\ validator.called /\ ~validator.isValid
    /\ ctxHeaders = Some(<<[name |-> "set-cookie", value |-> <<"sid">>]>>)
    /\ pc = "Sent"
    /\ sent[1].status = validator.errorResponse.v.status
    /\ Len(sent[1].headers) = 2

\* The task has returned the response of handle().
HandleReturned == pc = "TaskSucceeded" /\ accessToken.ran

\* handle() went through the validator: it validated the extracted token,
\* returned the validator's error response for an invalid token and a
\* success response for a valid one.
WentThroughValidator ==
    /\ validator.called
    /\ validator.token = accessToken.token
    /\ IF validator.isValid
       THEN taskResponse.v.status = 200
       ELSE taskResponse = validator.errorResponse

\* C9, as claimed: handle() of every endpoint goes through the validator.
C9_EveryHandleValidates == HandleReturned => WentThroughValidator

\* C9, amended: handle() of the Time endpoint goes through the validator,
\* and the Time endpoint sends no success response unless the validator
\* reported the token valid; handle() of the UserInfo endpoint never calls
\* the validator: it extracts the token and returns what
\* UserInfoRequestHandler.handle() returns.
C9_TimeHandleValidates ==
    /\ (HandleReturned /\ route.endpoint = "time") => WentThroughValidator
    /\ (HandleReturned /\ route.endpoint = "userinfo") =>
          ~validator.called /\ delegated
    /\ route.endpoint = "time" =>
          \A i \in 1..Len(sent) :
              sent[i].status = 200 => validator.called /\ validator.isValid
    /\ (route.endpoint = "time" /\ step \in {"validate", "validated"}) =>
          response = None

\* POST /api/time with a token in the body that the validator reported
\* valid: the success response was sent.
C9_Witness ==
    /\ route = [endpoint |-> "time", entry |-> "post"]
    /\ accessToken = Ran(Some(<<"d">>))
    /\ validator.called /\ validator.isValid
    /\ pc = "Sent"
    /\ sent[1].status = 200

-----------------------------------------------------------------------------
(* The claim about the time response, under SpecTime.                      *)

\* C10: the month of the success body is the 1-based month of the instant
\* in UTC, whatever the host's time zone is, as the year, the day and the
\* hour are those of the instant in UTC.
C10_MonthIsUtcMonth ==
    step = "returned" =>
        /\ response.v.body.json.month = getUTCMonth(now) + 1
        /\ response.v.body.json.year = getUTCFullYear(now)
        /\ response.v.body.json.day = getUTCDate(now)
        /\ response.v.body.json.hour = getUTCHours(now)

-----------------------------------------------------------------------------
(* The claims about the outcome and the course of a request, under Spec.   *)

\* The request entered through post() with a Content-Type other than the
\* required one.
GateRejected ==
    /\ route.entry = "post"
    /\ request.contentType # Some("application/x-www-form-urlencoded")

\* The task passed the gate, if any, and returned without throwing.
HandlerCompleted == ~GateRejected /\ ~thrown.some

IsContentType400(r) ==
    /\ r.status = 400
    /\ r.body = TextBody(
          "Request 'Content-Type' must be 'application/x-www-form-urlencoded'.")

IsGeneric500(r) ==
    r.status = 500 /\ r.body = TextBody("Something went wrong.")

IsValidatorError(r) ==
    /\ validator.called
    /\ validator.errorResponse.some
    /\ r.status = validator.errorResponse.v.status
    /\ r.body = validator.errorResponse.v.body

IsSuccess(r) == r.status = 200 /\ r.body.kind = "json"

\* How many of the four outcomes r is.
OutcomeCount(r) ==
    Cardinality({ i \in 1..4 :
        \/ i = 1 /\ IsContentType400(r)
        \/ i = 2 /\ IsGeneric500(r)
        \/ i = 3 /\ IsValidatorError(r)
        \/ i = 4 /\ IsSuccess(r) })

\* C11, as claimed: a request to an endpoint ends with one response,
\* which is exactly one of: the content-type 400, exactly when the gate
\* rejected it; the generic 500, exactly when the gate let it pass and
\* the task threw; the validator's error response, exactly when the task
\* completed and the validator found the token invalid; the success
\* response, exactly when the task completed and the validator found the
\* token valid.
C11_OneOfFourOutcomes ==
    (route.endpoint # "favicon" /\ pc = "Sent") =>
        /\ Len(sent) = 1
        /\ OutcomeCount(sent[1]) = 1
        /\ IsContentType400(sent[1]) <=> GateRejected
        /\ IsGeneric500(sent[1]) <=> (~GateRejected /\ thrown.some)
        /\ IsValidatorError(sent[1]) <=>
              (HandlerCompleted /\ validator.called /\ ~validator.isValid)
        /\ IsSuccess(sent[1]) <=>
              (HandlerCompleted /\ validator.called /\ validator.isValid)

\* C11, amended: a request to an endpoint ends with one response: the
\* content-type 400, exactly when the gate rejected it; the generic 500,
\* exactly when the gate let it pass and the task threw; and when the
\* task completed, for the Time endpoint the validator's error response
\* exactly when the token is invalid and the success response exactly
\* when it is valid, for the UserInfo endpoint the response that
\* UserInfoRequestHandler.handle() returned, no validator being called.
C11_OneOutcomePerEndpoint ==
    (route.endpoint # "favicon" /\ pc = "Sent") =>
        /\ Len(sent) = 1
        /\ IsContentType400(sent[1]) <=> GateRejected
        /\ IsGeneric500(sent[1]) <=> (~GateRejected /\ thrown.some)
        /\ GateRejected => ~thrown.some
        /\ route.endpoint = "time" =>
              /\ OutcomeCount(sent[1]) = 1
              /\ IsValidatorError(sent[1]) <=>
                    (HandlerCompleted /\ validator.called /\ ~validator.isValid)
              /\ IsSuccess(sent[1]) <=>
                    (HandlerCompleted /\ validator.called /\ validator.isValid)
              /\ HandlerCompleted => validator.called
        /\ route.endpoint = "userinfo" =>
              /\ ~validator.called
              /\ HandlerCompleted <=> (delegated /\ ~thrown.some)
              /\ HandlerCompleted =>
                    /\ taskResponse.v \in UserInfoResponses
                    /\ sent[1].status = taskResponse.v.status
                    /\ sent[1].body = taskResponse.v.body
                    /\ ~IsContentType400(sent[1]) /\ ~IsGeneric500(sent[1])

\* POST /api/time with the form Content-Type and a body token the
\* validator found invalid: the one response sent is the validator's, and
\* the controller has returned.
C11_Witness ==
    /\ route = [endpoint |-> "time", entry |-> "post"]
    /\ request.contentType = Some("application/x-www-form-urlencoded")
    /\ accessToken = Ran(Some(<<"d">>))
    /\ validator.called /\ ~validator.isValid
    /\ pc = "Sent"
    /\ returned
    /\ Len(sent) = 1
    /\ IsValidatorError(sent[1])

\* The steps of pc that process() allows.
PcSteps ==
    { <<"Dispatched", "TaskRunning">>,
      <<"TaskRunning", "TaskSucceeded">>,
      <<"TaskRunning", "TaskFailed">>,
      <<"TaskSucceeded", "HeadersMerged">>,
      <<"TaskFailed", "HeadersMerged">>,
      <<"HeadersMerged", "Sent">> }

\* One step of a request in the order of process(): the task is started
\* at most once, a response is sent at most once, and on reaching Sent and
\* ever after the task has run once and one response has been sent.
OrderedStep ==
    /\ pc' # pc => <<pc, pc'>> \in PcSteps
    /\ taskRuns' <= 1
    /\ Len(sent') <= 1
    /\ taskRuns' # taskRuns => (pc = "Dispatched" /\ pc' = "TaskRunning")
    /\ (route.endpoint # "favicon" /\ sent' # sent) =>
          (pc = "HeadersMerged" /\ pc' = "Sent")
    /\ pc' = "Sent" => (taskRuns' = 1 /\ Len(sent') = 1)

\* C12: a request given to process() goes through Dispatched, TaskRunning,
\* one of TaskSucceeded and TaskFailed, HeadersMerged and Sent in this
\* order and always reaches Sent; the task runs exactly once, also when it
\* fails, and the response is sent exactly once.
C12_RequestLifecycle ==
    /\ [][OrderedStep]_vars
    /\ (route.endpoint # "favicon" /\ pc = "Dispatched") ~> (pc = "TaskRunning")
    /\ (pc = "TaskRunning") ~> (pc \in {"TaskSucceeded", "TaskFailed"})
    /\ (pc \in {"TaskSucceeded", "TaskFailed"}) ~> (pc = "HeadersMerged")
    /\ (pc = "HeadersMerged") ~> (pc = "Sent" /\ returned)

\* A request whose task threw: it ran once, the 500 was sent once and the
\* controller has returned.
C12_Witness ==
    /\ route.endpoint = "userinfo"
    /\ thrown.some
    /\ pc = "Sent"
    /\ returned
    /\ taskRuns = 1
    /\ Len(sent) = 1

\* The collaborator that checks the token is called with the token that
\* extractAccessToken() returned, hence after it.
ExtractedBeforeValidated ==
    /\ validator.called => (accessToken.ran /\ validator.token = accessToken.token)
    /\ delegated => accessToken.ran
    /\ step \in {"validate", "validated", "delegate"} => accessToken.ran

\* A response that an endpoint has sent carries the context's headers in
\* front of those of the task's response, Fen's respond is disabled, and
\* it is the only response.
SentCarriesContextHeaders ==
    (route.endpoint # "favicon" /\ sent # <<>>) =>
        /\ disableRespond
        /\ Len(sent) = 1
        /\ \E k \in 0..Len(sent[1].headers) :
              SplitsAt(sent[1].headers, k,
                       IF ctxHeaders.some THEN ctxHeaders.v ELSE <<>>,
                       taskResponse.v.headers)

\* The explicit send is a step from a state in which Fen's respond is
\* already disabled and the headers are already merged; the validator and
\* the userinfo handler are called from a state in which the token is
\* already extracted.
SendIsLast ==
    /\ (route.endpoint # "favicon" /\ sent' # sent) =>
          /\ disableRespond
          /\ step = "merged"
          /\ response.v.headers =
                setupResponseHeaders(ctxHeaders, taskResponse.v).headers
          /\ sent' = <<response.v>>
    /\ (validator'.called /\ ~validator.called) => accessToken.ran
    /\ (delegated' /\ ~delegated) => accessToken.ran

\* C13: within a request, on every path, the token is extracted before the
\* validator is called, Fen's respond is disabled before the explicit send
\* and the headers are merged before the explicit send: the response sent
\* carries the context's headers and Fen never sends a second response.
C13_OrderWithinRequest ==
    /\ [](ExtractedBeforeValidated /\ SentCarriesContextHeaders)
    /\ [][SendIsLast]_vars

\* A generic 500 was sent with the session cookie of the context in front
\* of its own header, Fen's respond was disabled, and the controller has
\* returned without a second response.
C13_Witness ==
    /\ thrown.some
    /\ validator = NoValidator
    /\ ctxHeaders = Some(<<[name |-> "set-cookie", value |-> <<"sid">>]>>)
    /\ disableRespond
    /\ returned
    /\ Len(sent) = 1
    /\ sent[1].status = 500
    /\ sent[1].headers[1].name = "set-cookie"

\* The step that merges the headers leaves the status and the body of the
\* response, and the context's headers, as they are.
MergeFrame ==
    (step = "suppressed" /\ step' = "merged") =>
        /\ response'.v.status = response.v.status
        /\ response'.v.body = response.v.body
        /\ ctxHeaders' = ctxHeaders
        /\ DOMAIN response'.v = DOMAIN response.v

\* C14: assembling the response changes its headers only: status and body
\* are the same before and after the merge, for a success response, the
\* content-type 400, a validator error response and the generic 500, and
\* the context's own headers are not changed by the merge.
C14_MergeChangesHeadersOnly ==
    /\ [][MergeFrame]_vars
    /\ [](step \in {"merged", "responded"} =>
            /\ response.v.status = taskResponse.v.status
            /\ response.v.body = taskResponse.v.body)

\* A validator error response was merged with the context's cookie: its
\* headers changed, its status and body did not.
C14_Witness ==
    /\ step = "merged"
    /\ validator.called /\ ~validator.isValid
    /\ ctxHeaders = Some(<<[name |-> "set-cookie", value |-> <<"sid">>]>>)
    /\ response.v.headers # taskResponse.v.headers
    /\ response.v.status = 403
    /\ response.v.body = taskResponse.v.body

-----------------------------------------------------------------------------
(* The claim about the body of a GET request, under SpecExtract.           *)

\* C15: for a GET request without a matching Authorization header the
\* result of extractAccessToken is the query parameter access_token,
\* absence when there is none, whatever the Content-Type and the body
\* are: the body of a GET request is never read.
C15_GetNeverReadsBody ==
    (accessToken.ran /\ request.method = "GET" /\ ~HeaderMatches) =>
        /\ accessToken.token = request.params
        /\ ~request.params.some => accessToken.token = None

\* A GET request with the form Content-Type and a body token, without
\* header and query parameter: the result was absence.
C15_Witness ==
    /\ accessToken.ran
    /\ request.method = "GET"
    /\ request.authorization = None
    /\ request.contentType = Some("application/x-www-form-urlencoded")
    /\ request.params = None
    /\ request.reqBody = Some(<<"d">>)
    /\ accessToken.token = None

====
